---- MODULE Spec2Model ----
(***************************************************************************)
(* GhostFAT (src/main/ghostfat.c): the write-ingestion state machine       *)
(* uf2_write_block and the virtual FAT16 volume generator uf2_read_block.  *)
(*                                                                         *)
(* C structs are records, byte buffers are functions from offsets to       *)
(* bytes, and a 32-bit word whose value is only ever compared (the magic   *)
(* words, the family id) is the tuple of its four little-endian bytes.     *)
(***************************************************************************)
EXTENDS Integers, Sequences, FiniteSets, TLC

VARIABLES
  state,      \* WriteState *state: numBlocks, numWritten, writtenMask
  pre,        \* *state as it was when the last uf2_write_block call began
  bl,         \* the UF2_Block of the last uf2_write_block call
  ret,        \* the value the last uf2_write_block call returned (0: no call yet)
  flush,      \* whether the last call reached the flush point (line 418 true)
  everFlush,  \* whether any call so far reached the flush point
  dup,        \* whether the last call carried the same block as the call before it
  delivered,  \* the blocks handed to uf2_write_block so far (SpecPerm only)
  flash,      \* the content of the ota0 partition (a pattern number)
  partSize,   \* _part_ota0->size, bytes
  flashSize,  \* CFG_UF2_FLASH_SIZE, bytes
  block_no,   \* the sector the host asks uf2_read_block for
  data        \* the sector buffer uf2_read_block filled (NoData: not called yet)

vars == <<state, pre, bl, ret, flush, everFlush, dup, delivered,
          flash, partSize, flashSize, block_no, data>>

writeVars == <<state, pre, bl, ret, flush, everFlush, dup>>
readVars == <<block_no, data>>
partVars == <<flash, partSize, flashSize>>

(***************************************************************************)
(* Bounds of the model.                                                    *)
(***************************************************************************)
\* MAX_BLOCKS (uf2.h), scaled down; above 8 so that writtenMask has two bytes.
MAX_BLOCKS == 10
\* Width of the scaled-down unsigned word that holds numBlocks and blockNo.
UintBits == 5
\* Largest firmware image of the model, in 256-byte chunks: its cluster chain
\* crosses a FAT sector boundary.
MaxImageChunks == 300
\* Number of distinct flash content patterns.
MaxFlash == 2

(***************************************************************************)
(* Constants of the program.                                               *)
(***************************************************************************)
BPB_SECTOR_SIZE == 512
UF2_FIRMWARE_BYTES_PER_SECTOR == 256
\* uf2.h: the fixed fields of UF2_Block.
UF2_MAGIC_START0 == <<85, 70, 50, 10>>
UF2_MAGIC_START1 == <<87, 81, 93, 158>>
UF2_MAGIC_END == <<48, 111, 177, 10>>
UF2_FLAG_NOFLASH == 1
UF2_FLAG_FAMILYID == 8192
UF2_DATA_SIZE == 476
CFG_UF2_FAMILY_ID == <<238, 78, 221, 191>>
\* 0xffffffff in the model's word: all bits set.
UINT_MAX == 2^UintBits - 1

\* x & flag for a one-bit flag (flag is a power of two).
BitAnd1(x, flag) == ((x \div flag) % 2) * flag

(***************************************************************************)
(* WriteState                                                              *)
(***************************************************************************)
MaskBytes == 0 .. (MAX_BLOCKS \div 8)

ZeroState ==
  [numBlocks |-> 0, numWritten |-> 0, writtenMask |-> [p \in MaskBytes |-> 0]]

(***************************************************************************)
(* uf2_write_block                                                         *)
(***************************************************************************)
is_uf2_block_noflash(b) ==
  /\ b.magicStart0 = UF2_MAGIC_START0
  /\ b.magicStart1 = UF2_MAGIC_START1
  /\ b.magicEnd = UF2_MAGIC_END
  /\ BitAnd1(b.flags, UF2_FLAG_FAMILYID) # 0

is_uf2_block(b) ==
  /\ b.magicStart0 = UF2_MAGIC_START0
  /\ b.magicStart1 = UF2_MAGIC_START1
  /\ b.magicEnd = UF2_MAGIC_END
  /\ BitAnd1(b.flags, UF2_FLAG_FAMILYID) # 0
  /\ ~(BitAnd1(b.flags, UF2_FLAG_NOFLASH) # 0)

\* lines 396-402: "Update state num blocks if needed"
UpdateNumBlocks_relearn(st, b) ==
  IF st.numBlocks # b.numBlocks
  THEN IF b.numBlocks >= MAX_BLOCKS
       THEN [st EXCEPT !.numBlocks = UINT_MAX]
       ELSE [st EXCEPT !.numBlocks = b.numBlocks]
  ELSE st

UpdateNumBlocks(st, b) ==
  IF st.numBlocks # b.numBlocks
  THEN IF b.numBlocks >= MAX_BLOCKS \/ st.numBlocks # 0
       THEN [st EXCEPT !.numBlocks = UINT_MAX]
       ELSE [st EXCEPT !.numBlocks = b.numBlocks]
  ELSE st

\* lines 406-414: set the block's bit, count it when it was clear
MarkWritten_always(st, b) ==
  LET mask == 2^(b.blockNo % 8)
      pos == b.blockNo \div 8
  IN  [st EXCEPT !.writtenMask[pos] =
                     IF BitAnd1(@, mask) = 0 THEN @ + mask ELSE @,
                 !.numWritten = @ + 1]

MarkWritten(st, b) ==
  LET mask == 2^(b.blockNo % 8)
      pos == b.blockNo \div 8
  IN  IF BitAnd1(st.writtenMask[pos], mask) = 0
      THEN [st EXCEPT !.writtenMask[pos] = @ + mask, !.numWritten = @ + 1]
      ELSE st

\* The call as a whole, with the index test "bl->blockNo <= MAX_BLOCKS".
uf2_write_block_inclusive(st, b) ==
  IF ~is_uf2_block(b)
  THEN [state |-> st, ret |-> -1, flush |-> FALSE]
  ELSE IF b.numBlocks # 0
  THEN LET s1 == UpdateNumBlocks(st, b)
       IN  IF b.blockNo <= MAX_BLOCKS
           THEN LET s2 == MarkWritten(s1, b)
                IN  [state |-> s2, ret |-> BPB_SECTOR_SIZE,
                     flush |-> s2.numWritten >= s2.numBlocks]
           ELSE [state |-> s1, ret |-> BPB_SECTOR_SIZE, flush |-> FALSE]
  ELSE [state |-> st, ret |-> BPB_SECTOR_SIZE, flush |-> FALSE]

\* The call as a whole: the new *state, the return value, and whether the
\* flush point inside "if ( state->numWritten >= state->numBlocks )" was reached.
uf2_write_block(st, b) ==
  IF ~is_uf2_block(b)
  THEN [state |-> st, ret |-> -1, flush |-> FALSE]
  ELSE IF b.numBlocks # 0
  THEN LET s1 == UpdateNumBlocks(st, b)
       IN  IF b.blockNo < MAX_BLOCKS
           THEN LET s2 == MarkWritten(s1, b)
                IN  [state |-> s2, ret |-> BPB_SECTOR_SIZE,
                     flush |-> s2.numWritten >= s2.numBlocks]
           ELSE [state |-> s1, ret |-> BPB_SECTOR_SIZE, flush |-> FALSE]
  ELSE [state |-> st, ret |-> BPB_SECTOR_SIZE, flush |-> FALSE]

(***************************************************************************)
(* The flash partition. Its content is one of a few patterns; byte a of    *)
(* pattern f is FlashByte(f, a), and successive 256-byte chunks differ.    *)
(***************************************************************************)
FlashByte(f, a) == (a * f + (a \div 256) + f) % 256

\* esp_partition_read(_part_ota0, addr, bl->data, len) into a zeroed buffer of
\* UF2_DATA_SIZE bytes: a range that leaves the partition is refused and the
\* buffer stays as it was.
esp_partition_read(f, psize, addr, len) ==
  [j \in 0 .. (UF2_DATA_SIZE - 1) |->
     IF j < len /\ addr + len <= psize THEN FlashByte(f, addr + j) ELSE 0]

(***************************************************************************)
(* Geometry of the volume (lines 93-187).                                  *)
(***************************************************************************)
BPB_SECTORS_PER_CLUSTER == 1
BPB_RESERVED_SECTORS == 1
BPB_NUMBER_OF_FATS == 2
BPB_ROOT_DIR_ENTRIES == 64
\* CFG_UF2_NUM_BLOCKS (uf2.h): the smallest volume the static assertions accept.
CFG_UF2_NUM_BLOCKS == 4156
BPB_TOTAL_SECTORS == CFG_UF2_NUM_BLOCKS
BPB_MEDIA_DESCRIPTOR_BYTE == 248
FAT_ENTRY_SIZE == 2
FAT_ENTRIES_PER_SECTOR == BPB_SECTOR_SIZE \div FAT_ENTRY_SIZE
BPB_SECTORS_PER_FAT ==
  (BPB_TOTAL_SECTORS \div FAT_ENTRIES_PER_SECTOR)
    + (IF BPB_TOTAL_SECTORS % FAT_ENTRIES_PER_SECTOR # 0 THEN 1 ELSE 0)
SizeofDirEntry == 32
DIRENTRIES_PER_SECTOR == BPB_SECTOR_SIZE \div SizeofDirEntry
ROOT_DIR_SECTOR_COUNT == BPB_ROOT_DIR_ENTRIES \div DIRENTRIES_PER_SECTOR

\* struct TextFile info[]: the name, and the content (<<>> stands for NULL).
infoUf2File ==
  <<85, 70, 50, 32, 66, 111, 111, 116, 108, 111, 97, 100, 101, 114, 32, 48, 46,
    48, 46, 48, 13, 10, 77, 111, 100, 101, 108, 58, 32, 69, 115, 112, 114, 101,
    115, 115, 105, 102, 32, 115, 97, 111, 108, 97, 13, 10, 66, 111, 97, 114,
    100, 45, 73, 68, 58, 32, 97, 100, 97, 102, 114, 117, 105, 116, 45, 116,
    101, 115, 116, 45, 98, 111, 97, 114, 100, 13, 10>>

indexFile ==
  <<60, 33, 100, 111, 99, 116, 121, 112, 101, 32, 104, 116, 109, 108, 62, 10,
    60, 104, 116, 109, 108, 62, 60, 98, 111, 100, 121, 62, 60, 115, 99, 114,
    105, 112, 116, 62, 10, 108, 111, 99, 97, 116, 105, 111, 110, 46, 114, 101,
    112, 108, 97, 99, 101, 40, 34, 104, 116, 116, 112, 115, 58, 47, 47, 97,
    100, 97, 102, 114, 117, 105, 116, 46, 99, 111, 109, 34, 41, 59, 10, 60,
    47, 115, 99, 114, 105, 112, 116, 62, 60, 47, 98, 111, 100, 121, 62, 60,
    47, 104, 116, 109, 108, 62, 10>>

\* "INFO_UF2TXT", "INDEX   HTM", "CURRENT UF2"; info[i] of the C array is info[i + 1].
info ==
  << [name |-> <<73, 78, 70, 79, 95, 85, 70, 50, 84, 88, 84>>, content |-> infoUf2File],
     [name |-> <<73, 78, 68, 69, 88, 32, 32, 32, 72, 84, 77>>, content |-> indexFile],
     [name |-> <<67, 85, 82, 82, 69, 78, 84, 32, 85, 70, 50>>, content |-> <<>>] >>

NUM_FILES == Len(info)
NUM_DIRENTRIES == NUM_FILES + 1
NUM_SECTORS_IN_DATA_REGION ==
  BPB_TOTAL_SECTORS - BPB_RESERVED_SECTORS
    - (BPB_NUMBER_OF_FATS * BPB_SECTORS_PER_FAT) - ROOT_DIR_SECTOR_COUNT
CLUSTER_COUNT == NUM_SECTORS_IN_DATA_REGION \div BPB_SECTORS_PER_CLUSTER

\* The STATIC_ASSERTs of lines 108-115 and 150-170 (infoUf2File is an array of
\* 128*3 chars, indexFile one of its text and the terminating NUL).
StaticAsserts ==
  /\ BPB_SECTOR_SIZE = 512
  /\ BPB_SECTORS_PER_CLUSTER = 1
  /\ BPB_NUMBER_OF_FATS = 2
  /\ BPB_SECTOR_SIZE % SizeofDirEntry = 0
  /\ BPB_ROOT_DIR_ENTRIES % DIRENTRIES_PER_SECTOR = 0
  /\ FAT_ENTRIES_PER_SECTOR = 256
  /\ Len(infoUf2File) < 128 * 3
  /\ 128 * 3 < BPB_SECTOR_SIZE
  /\ Len(indexFile) + 1 < BPB_SECTOR_SIZE
  /\ NUM_DIRENTRIES < DIRENTRIES_PER_SECTOR * ROOT_DIR_SECTOR_COUNT
  /\ NUM_DIRENTRIES < BPB_ROOT_DIR_ENTRIES
  /\ NUM_DIRENTRIES < DIRENTRIES_PER_SECTOR
  /\ CLUSTER_COUNT >= 4085 /\ CLUSTER_COUNT < 65525
  /\ CLUSTER_COUNT >= 4117 /\ CLUSTER_COUNT < 65493

UF2_SECTORS(psize) == psize \div UF2_FIRMWARE_BYTES_PER_SECTOR
UF2_SIZE(psize) == UF2_SECTORS(psize) * BPB_SECTOR_SIZE
USER_FLASH_START == 0
UF2_FIRST_SECTOR == (NUM_FILES + 1) * BPB_SECTORS_PER_CLUSTER
UF2_LAST_SECTOR(psize) ==
  (UF2_FIRST_SECTOR + UF2_SECTORS(psize) - 1) * BPB_SECTORS_PER_CLUSTER

FS_START_FAT0_SECTOR == BPB_RESERVED_SECTORS
FS_START_FAT1_SECTOR == FS_START_FAT0_SECTOR + BPB_SECTORS_PER_FAT
FS_START_ROOTDIR_SECTOR == FS_START_FAT1_SECTOR + BPB_SECTORS_PER_FAT
FS_START_CLUSTERS_SECTOR == FS_START_ROOTDIR_SECTOR + ROOT_DIR_SECTOR_COUNT

\* "ESP32SBOOT" and the terminating NUL of the 11-byte VolumeLabel field
UF2_VOLUME_LABEL == <<69, 83, 80, 51, 50, 83, 66, 79, 79, 84, 0>>

BootBlock ==
  [SectorSize |-> BPB_SECTOR_SIZE,
   SectorsPerCluster |-> BPB_SECTORS_PER_CLUSTER,
   ReservedSectors |-> BPB_RESERVED_SECTORS,
   FATCopies |-> BPB_NUMBER_OF_FATS,
   RootDirectoryEntries |-> BPB_ROOT_DIR_ENTRIES,
   TotalSectors16 |-> IF BPB_TOTAL_SECTORS > 65535 THEN 0 ELSE BPB_TOTAL_SECTORS,
   MediaDescriptor |-> BPB_MEDIA_DESCRIPTOR_BYTE,
   SectorsPerFAT |-> BPB_SECTORS_PER_FAT,
   SectorsPerTrack |-> 1,
   Heads |-> 1,
   TotalSectors32 |-> IF BPB_TOTAL_SECTORS > 65535 THEN BPB_TOTAL_SECTORS ELSE 0,
   PhysicalDriveNum |-> 128,
   ExtendedBootSig |-> 41,
   VolumeLabel |-> UF2_VOLUME_LABEL]

(***************************************************************************)
(* uf2_read_block                                                          *)
(***************************************************************************)
\* padded_memcpy(dst, src, len): src is copied up to its NUL, the rest is ' '.
RECURSIVE padded_memcpy(_, _)
padded_memcpy(src, len) ==
  IF len = 0 THEN <<>>
  ELSE IF src # <<>> /\ Head(src) # 0
       THEN <<Head(src)>> \o padded_memcpy(Tail(src), len - 1)
       ELSE <<32>> \o padded_memcpy(src, len - 1)

\* memset(data, 0, BPB_SECTOR_SIZE)
ZeroBytes == [j \in 0 .. (BPB_SECTOR_SIZE - 1) |-> 0]

\* The index of a FAT sector inside its copy (lines 273-276).
FatSectionIdx_firstonly(no) == no - FS_START_FAT0_SECTOR

FatSectionIdx(no) ==
  LET sectionIdx == no - FS_START_FAT0_SECTOR
  IN  IF sectionIdx >= BPB_SECTORS_PER_FAT
      THEN sectionIdx - BPB_SECTORS_PER_FAT
      ELSE sectionIdx

\* The uint16_t stored for cluster v of the firmware file (line 296).
FatChainEntry(v, last) == IF v = last THEN 65535 ELSE (v + 1) % 65536

\* Byte j of FAT sector sectionIdx (lines 278-298): the media descriptor and
\* the 0xff run of sector 0, then the firmware chain stored over them.
FatByte_shortrun(sectionIdx, psize, j) ==
  LET v == (sectionIdx * FAT_ENTRIES_PER_SECTOR) + (j \div FAT_ENTRY_SIZE)
      end == (NUM_FILES * FAT_ENTRY_SIZE)
  IN  IF UF2_FIRST_SECTOR <= v /\ v <= UF2_LAST_SECTOR(psize)
      THEN LET e == FatChainEntry(v, UF2_LAST_SECTOR(psize))
           IN  IF j % 2 = 0 THEN e % 256 ELSE e \div 256
      ELSE IF sectionIdx = 0 /\ j = 0 THEN BPB_MEDIA_DESCRIPTOR_BYTE
      ELSE IF sectionIdx = 0 /\ 1 <= j /\ j < end THEN 255
      ELSE 0

FatByte(sectionIdx, psize, j) ==
  LET v == (sectionIdx * FAT_ENTRIES_PER_SECTOR) + (j \div FAT_ENTRY_SIZE)
      end == (NUM_FILES * FAT_ENTRY_SIZE) + (2 * FAT_ENTRY_SIZE)
  IN  IF UF2_FIRST_SECTOR <= v /\ v <= UF2_LAST_SECTOR(psize)
      THEN LET e == FatChainEntry(v, UF2_LAST_SECTOR(psize))
           IN  IF j % 2 = 0 THEN e % 256 ELSE e \div 256
      ELSE IF sectionIdx = 0 /\ j = 0 THEN BPB_MEDIA_DESCRIPTOR_BYTE
      ELSE IF sectionIdx = 0 /\ 1 <= j /\ j < end THEN 255
      ELSE 0

ZeroDirEntry ==
  [name |-> <<0, 0, 0, 0, 0, 0, 0, 0, 0, 0, 0>>, attrs |-> 0,
   highStartCluster |-> 0, startCluster |-> 0, size |-> 0]

\* The directory entry of file i of the C array (lines 323-335; the time and
\* date fields, which come from compile_date.h, are left out).
FileDirEntry(i, psize) ==
  LET startCluster == (i + 2) % 65536
      inf == info[i + 1]
  IN  [name |-> padded_memcpy(inf.name, 11), attrs |-> 0,
       highStartCluster |-> startCluster \div 65536,
       startCluster |-> startCluster % 65536,
       size |-> IF inf.content # <<>> THEN Len(inf.content) ELSE UF2_SIZE(psize)]

\* Slot k of root directory sector sectionIdx (lines 304-336): the volume
\* label in slot 0 of sector 0, then file DIRENTRIES_PER_SECTOR * sectionIdx
\* and its successors, then zero slots.
DirSlot(sectionIdx, psize, k) ==
  LET first == IF sectionIdx = 0 THEN 1 ELSE 0
      i == (DIRENTRIES_PER_SECTOR * sectionIdx) + (k - first)
  IN  IF sectionIdx = 0 /\ k = 0
      THEN [ZeroDirEntry EXCEPT !.name = padded_memcpy(BootBlock.VolumeLabel, 11),
                                !.attrs = 40]
      ELSE IF i < NUM_FILES THEN FileDirEntry(i, psize)
      ELSE ZeroDirEntry

\* The UF2_Block generated for sector sectionIdx of the firmware file
\* (lines 349-363).
FirmwareBlock(f, psize, sectionIdx) ==
  LET addr == USER_FLASH_START + (sectionIdx * UF2_FIRMWARE_BYTES_PER_SECTOR)
  IN  [magicStart0 |-> UF2_MAGIC_START0, magicStart1 |-> UF2_MAGIC_START1,
       flags |-> UF2_FLAG_FAMILYID, targetAddr |-> addr,
       payloadSize |-> UF2_FIRMWARE_BYTES_PER_SECTOR, blockNo |-> sectionIdx,
       numBlocks |-> UF2_SECTORS(psize), familyID |-> CFG_UF2_FAMILY_ID,
       data |-> esp_partition_read(f, psize, addr, UF2_FIRMWARE_BYTES_PER_SECTOR),
       magicEnd |-> UF2_MAGIC_END]

\* A sector of the cluster region (lines 340-365).
DataSector_nobound(f, psize, fsize, sectionIdx) ==
  IF sectionIdx < NUM_FILES - 1
  THEN [view |-> "uint8_t",
        bytes |-> [j \in 0 .. (BPB_SECTOR_SIZE - 1) |->
                     LET c == info[sectionIdx + 1].content
                     IN  IF j < Len(c) THEN c[j + 1] ELSE 0]]
  ELSE [view |-> "UF2_Block",
        block |-> FirmwareBlock(f, psize, sectionIdx - (NUM_FILES - 1))]

DataSector(f, psize, fsize, sectionIdx) ==
  IF sectionIdx < NUM_FILES - 1
  THEN [view |-> "uint8_t",
        bytes |-> [j \in 0 .. (BPB_SECTOR_SIZE - 1) |->
                     LET c == info[sectionIdx + 1].content
                     IN  IF j < Len(c) THEN c[j + 1] ELSE 0]]
  ELSE LET idx == sectionIdx - (NUM_FILES - 1)
           addr == USER_FLASH_START + (idx * UF2_FIRMWARE_BYTES_PER_SECTOR)
       IN  IF addr < fsize
           THEN [view |-> "UF2_Block", block |-> FirmwareBlock(f, psize, idx)]
           ELSE [view |-> "uint8_t", bytes |-> ZeroBytes]

\* The buffer uf2_read_block(no, data) leaves, under the type the code writes
\* it through: FAT_BootBlock, uint8_t[512], DirEntry[16] or UF2_Block.
uf2_read_block(no, f, psize, fsize) ==
  IF no = 0
  THEN [view |-> "FAT_BootBlock", boot |-> BootBlock, sig |-> <<85, 170>>]
  ELSE IF no < FS_START_ROOTDIR_SECTOR
  THEN [view |-> "uint8_t",
        bytes |-> [j \in 0 .. (BPB_SECTOR_SIZE - 1) |->
                     FatByte(FatSectionIdx(no), psize, j)]]
  ELSE IF no < FS_START_CLUSTERS_SECTOR
  THEN [view |-> "DirEntry",
        entries |-> [k \in 0 .. (DIRENTRIES_PER_SECTOR - 1) |->
                       DirSlot(no - FS_START_ROOTDIR_SECTOR, psize, k)]]
  ELSE IF no < BPB_TOTAL_SECTORS
  THEN DataSector(f, psize, fsize, no - FS_START_CLUSTERS_SECTOR)
  ELSE [view |-> "uint8_t", bytes |-> ZeroBytes]

(***************************************************************************)
(* The blocks the host may write.                                          *)
(***************************************************************************)
\* uf2_write_block never reads UF2_Block.data, so a block the host writes
\* carries the number p of its payload pattern there; byte j of the field is
\* PayloadByte(p, j): payloadSize bytes of payload, then the zero padding.
PayloadByte(p, j) ==
  IF j < UF2_FIRMWARE_BYTES_PER_SECTOR THEN ((j * 3) + 100 + p) % 256 ELSE 0

Block(no, total, fl, p) ==
  [magicStart0 |-> UF2_MAGIC_START0, magicStart1 |-> UF2_MAGIC_START1,
   flags |-> fl, targetAddr |-> no * UF2_FIRMWARE_BYTES_PER_SECTOR,
   payloadSize |-> UF2_FIRMWARE_BYTES_PER_SECTOR, blockNo |-> no,
   numBlocks |-> total, familyID |-> CFG_UF2_FAMILY_ID,
   data |-> p, magicEnd |-> UF2_MAGIC_END]

BadMagic == <<0, 0, 0, 0>>

\* Block indices: both bytes of the mask, the last index, the first one out of
\* range, and the largest word.
BlockNos == {0, 1, 7, 8, MAX_BLOCKS - 1, MAX_BLOCKS, UINT_MAX}
\* Declared totals: none, small ones, the limit and its neighbours, the largest word.
Totals == {0, 1, 2, 3, MAX_BLOCKS - 1, MAX_BLOCKS, MAX_BLOCKS + 1, UINT_MAX}

\* Blocks that pass is_uf2_block (one of them with a further flag bit set).
ValidBlocks ==
  {Block(no, t, UF2_FLAG_FAMILYID, 1) : no \in BlockNos, t \in Totals}
  \cup {Block(1, 2, UF2_FLAG_FAMILYID + 4096, 1)}

\* Blocks that fail exactly one check of is_uf2_block, or several.
InvalidBlocks ==
  LET good == {Block(0, 2, UF2_FLAG_FAMILYID, 1), Block(8, 1, UF2_FLAG_FAMILYID, 1)}
  IN  {[b EXCEPT !.magicStart0 = BadMagic] : b \in good}
      \cup {[b EXCEPT !.magicStart1 = BadMagic] : b \in good}
      \cup {[b EXCEPT !.magicEnd = BadMagic] : b \in good}
      \cup {[b EXCEPT !.flags = 0] : b \in good}
      \cup {[b EXCEPT !.flags = UF2_FLAG_FAMILYID + UF2_FLAG_NOFLASH] : b \in good}
      \cup {[b EXCEPT !.flags = UF2_FLAG_NOFLASH, !.magicEnd = BadMagic] : b \in good}

Blocks == ValidBlocks \cup InvalidBlocks

NoBlock == [Block(0, 0, 0, 1) EXCEPT !.magicStart0 = BadMagic,
                                     !.magicStart1 = BadMagic, !.magicEnd = BadMagic]

(***************************************************************************)
(* The write session: a fresh WriteState, then one uf2_write_block call    *)
(* per sector the host writes.                                             *)
(***************************************************************************)
InitWrite ==
  /\ state = ZeroState
  /\ pre = ZeroState
  /\ bl = NoBlock
  /\ ret = 0
  /\ flush = FALSE
  /\ everFlush = FALSE
  /\ dup = FALSE

NoData == [view |-> "none"]

\* A write session on a device whose partition holds a two-chunk image.
Init ==
  /\ InitWrite
  /\ delivered = {}
  /\ flash = 1
  /\ partSize = 2 * UF2_FIRMWARE_BYTES_PER_SECTOR
  /\ flashSize = 2 * UF2_FIRMWARE_BYTES_PER_SECTOR
  /\ block_no = 0
  /\ data = NoData

\* uf2_write_block(block_no, data, state): it never touches the partition.
WriteCall(b) ==
  LET r == uf2_write_block(state, b)
  IN  /\ state' = r.state
      /\ pre' = state
      /\ bl' = b
      /\ ret' = r.ret
      /\ flush' = r.flush
      /\ everFlush' = (everFlush \/ r.flush)
      /\ dup' = (ret # 0 /\ b = bl)
      /\ UNCHANGED partVars

WriteBlock ==
  \E b \in Blocks :
    /\ WriteCall(b)
    /\ UNCHANGED <<delivered, block_no, data>>

Next == WriteBlock

Spec == Init /\ [][Next]_vars

(***************************************************************************)
(* Delivery order: the host hands blocks with pairwise distinct indices to *)
(* uf2_write_block in any order, and may hand over again any block it has  *)
(* already delivered.                                                      *)
(***************************************************************************)
PermBlocks ==
  {Block(no, t, UF2_FLAG_FAMILYID, 1) :
     no \in {0, 1, 8, MAX_BLOCKS}, t \in {0, 1, 2, 3, MAX_BLOCKS}}

Deliver ==
  \E b \in PermBlocks :
    /\ b \in delivered \/ \A c \in delivered : c.blockNo # b.blockNo
    /\ WriteCall(b)
    /\ delivered' = delivered \cup {b}
    /\ UNCHANGED readVars

NextPerm == Deliver

SpecPerm == Init /\ [][NextPerm]_vars

(***************************************************************************)
(* Reading the volume: uf2_read_block is a function of the sector number,  *)
(* the partition and the configured flash size; the host asks for one      *)
(* sector and the call fills the buffer.                                   *)
(***************************************************************************)
ImageSizes == {n * UF2_FIRMWARE_BYTES_PER_SECTOR : n \in {1, 2, MaxImageChunks}}

InitRead ==
  /\ StaticAsserts
  /\ InitWrite
  /\ delivered = {}
  /\ flash \in 1 .. MaxFlash
  /\ partSize \in ImageSizes
  /\ flashSize \in ImageSizes
  /\ block_no \in 0 .. (BPB_TOTAL_SECTORS - 1)
  /\ data = NoData

ReadBlock ==
  /\ data.view = "none"
  /\ data' = uf2_read_block(block_no, flash, partSize, flashSize)
  /\ UNCHANGED <<block_no, delivered>>
  /\ UNCHANGED writeVars
  /\ UNCHANGED partVars

NextRead == ReadBlock

SpecRead == InitRead /\ [][NextRead]_vars

(***************************************************************************)
(* Properties of the write session (Spec).                                 *)
(***************************************************************************)
\* The five validity checks, read off the packet.
GoodStart0(b) == b.magicStart0 = <<85, 70, 50, 10>>
GoodStart1(b) == b.magicStart1 = <<87, 81, 93, 158>>
GoodEnd(b) == b.magicEnd = <<48, 111, 177, 10>>
HasFamilyId(b) == (b.flags \div 8192) % 2 = 1
HasNoFlash(b) == b.flags % 2 = 1
PassesChecks(b) ==
  GoodStart0(b) /\ GoodStart1(b) /\ GoodEnd(b) /\ HasFamilyId(b) /\ ~HasNoFlash(b)

Called == ret # 0
Accepted == ret = BPB_SECTOR_SIZE

\* Bit n of a written mask, and the indices whose bit is set.
BitOf(mask, n) == (mask[n \div 8] \div (2^(n % 8))) % 2 = 1
SetBits(mask) == {n \in 0 .. ((8 * (MAX_BLOCKS \div 8)) + 7) : BitOf(mask, n)}

\* The completion condition on a WriteState.
Complete(st) ==
  st.numBlocks # 0 /\ st.numBlocks # UINT_MAX /\ st.numWritten >= st.numBlocks

C3_RejectedUnchanged ==
  (Called /\ ~PassesChecks(bl)) =>
    /\ ret = -1
    /\ state.numBlocks = pre.numBlocks
    /\ state.numWritten = pre.numWritten
    /\ \A p \in MaskBytes : state.writtenMask[p] = pre.writtenMask[p]

\* A block whose only fault is the no-flash flag was rejected in the middle
\* of a session.
C3_Witness ==
  /\ ret = -1
  /\ GoodStart0(bl) /\ GoodStart1(bl) /\ GoodEnd(bl) /\ HasFamilyId(bl) /\ HasNoFlash(bl)
  /\ state.numWritten >= 2
  /\ state.numBlocks # 0
  /\ state = pre

\* C4 as stated: after a block is accepted, the flash bytes at
\* [targetAddr, targetAddr + payloadSize) equal the block's payload.
C4_Original ==
  Accepted =>
    \A j \in 0 .. (bl.payloadSize - 1) :
      FlashByte(flash, bl.targetAddr + j) = PayloadByte(bl.data, j)

\* C8 as stated: an accepted block declaring a nonzero total T that differs
\* from the learned one sets the learned total to T when none was learned and
\* T does not exceed MAX_BLOCKS, and to 0xffffffff otherwise; a block declaring
\* 0 or the learned total leaves it.
C8_Original ==
  Accepted =>
    IF bl.numBlocks # 0 /\ bl.numBlocks # pre.numBlocks
    THEN IF pre.numBlocks = 0 /\ bl.numBlocks <= MAX_BLOCKS
         THEN state.numBlocks = bl.numBlocks
         ELSE state.numBlocks = UINT_MAX
    ELSE state.numBlocks = pre.numBlocks

C10_Original ==
  (Accepted /\ Complete(state)) =>
    \A n \in 0 .. (state.numBlocks - 1) : BitOf(state.writtenMask, n)

\* C11: in every state of a session that began with an all-zero WriteState,
\* whatever blocks were written (valid, invalid, repeated, any total, any
\* index), numWritten is the number of bits set in writtenMask and no bit of an
\* index >= MAX_BLOCKS is set; and no call clears a set bit or lowers numWritten.
C11_CountIsPopcount ==
  /\ state.numWritten = Cardinality(SetBits(state.writtenMask))
  /\ \A n \in SetBits(state.writtenMask) : n < MAX_BLOCKS
  /\ Called =>
       /\ SetBits(pre.writtenMask) \subseteq SetBits(state.writtenMask)
       /\ state.numWritten >= pre.numWritten
       /\ pre.numWritten = Cardinality(SetBits(pre.writtenMask))

\* Every index below MAX_BLOCKS that the host uses has been written, in both
\* bytes of the mask, and then a valid block that declares a total and has the
\* first index out of range was accepted: the mask and the count stayed.
C11_Witness ==
  /\ Accepted /\ PassesChecks(bl)
  /\ bl.numBlocks # 0 /\ bl.blockNo = MAX_BLOCKS
  /\ SetBits(state.writtenMask) = {n \in BlockNos : n < MAX_BLOCKS}
  /\ state.numWritten = Cardinality({n \in BlockNos : n < MAX_BLOCKS})
  /\ state.writtenMask = pre.writtenMask
  /\ state.numWritten = pre.numWritten

(***************************************************************************)
(* Properties of the delivery order (SpecPerm).                            *)
(***************************************************************************)
\* The blocks of S in ascending block-index order (the indices are distinct).
RECURSIVE Ascending(_)
Ascending(S) ==
  IF S = {} THEN <<>>
  ELSE LET first == CHOOSE b \in S : \A c \in S : b.blockNo <= c.blockNo
       IN  <<first>> \o Ascending(S \ {first})

\* A fresh WriteState after the blocks of seq, one call each, and whether the
\* completion condition was reached at the flush point of any of the calls.
RECURSIVE RunFrom(_, _, _)
RunFrom(st, reached, seq) ==
  IF seq = <<>> THEN [state |-> st, reached |-> reached]
  ELSE LET r == uf2_write_block(st, Head(seq))
       IN  RunFrom(r.state, reached \/ r.flush, Tail(seq))

InOrder == RunFrom(ZeroState, FALSE, Ascending(delivered))

\* All the delivered blocks that declare a total declare the same one.
OneTotal ==
  \A a \in delivered : \A c \in delivered :
    (a.numBlocks # 0 /\ c.numBlocks # 0) => a.numBlocks = c.numBlocks

\* C1 as stated: whatever the order and the repetitions, the delivery ends
\* with the writtenMask, numWritten and numBlocks of the ascending delivery of
\* the same blocks, and reached completion at some point exactly if the
\* ascending delivery did.
C1_Original ==
  /\ state = InOrder.state
  /\ everFlush = InOrder.reached

\* C1, amended: writtenMask, numWritten and numBlocks end as in the ascending
\* delivery for every set of blocks; completion is reached at some point
\* exactly if the ascending delivery reaches it when the blocks that declare
\* a total all declare the same one.
C1_OrderIndependent ==
  /\ state.writtenMask = InOrder.state.writtenMask
  /\ state.numWritten = InOrder.state.numWritten
  /\ state.numBlocks = InOrder.state.numBlocks
  /\ OneTotal => everFlush = InOrder.reached

\* Three blocks of a three-block image arrived with the lowest index last
\* (after the block of index 8), and the last call completed the image.
C1_Witness ==
  /\ Cardinality(delivered) = 3
  /\ \A b \in delivered : b.numBlocks = 3
  /\ bl.blockNo = 0
  /\ \E c \in delivered : c.blockNo = 8
  /\ state.numWritten = pre.numWritten + 1
  /\ state.numWritten = 3
  /\ flush /\ everFlush /\ InOrder.reached

(***************************************************************************)
(* Properties of the generated volume (SpecRead).                          *)
(***************************************************************************)
\* The 16-bit little-endian FAT entry i of a sector buffer.
Entry16(bytes, i) == bytes[2 * i] + (256 * bytes[(2 * i) + 1])

ReadFat == data.view = "uint8_t" /\ block_no >= FS_START_FAT0_SECTOR
             /\ block_no < FS_START_ROOTDIR_SECTOR

\* The sector of the FAT, counted inside its copy, that block_no holds.
LogicalFatSector == (block_no - FS_START_FAT0_SECTOR) % BPB_SECTORS_PER_FAT

\* The starting cluster the root directory gives file i of the table.
DirStartCluster(i) ==
  LET d == uf2_read_block(FS_START_ROOTDIR_SECTOR, flash, partSize, flashSize).entries[i + 1]
  IN  (d.highStartCluster * 65536) + d.startCluster

FirmwareFile == CHOOSE i \in 0 .. (NUM_FILES - 1) : info[i + 1].content = <<>>
NonFirmwareFiles == {i \in 0 .. (NUM_FILES - 1) : info[i + 1].content # <<>>}

FirstCluster == DirStartCluster(FirmwareFile)
LastCluster == FirstCluster + (partSize \div UF2_FIRMWARE_BYTES_PER_SECTOR) - 1

\* C5: every cluster k of the firmware file's range [F, L] has a FAT entry in
\* both FAT copies, and in whichever copy the sector is read from the entry is
\* k + 1 for k < L and the end-of-chain marker 0xFFFF for k = L.
C5_FirmwareChain ==
  /\ LastCluster \div FAT_ENTRIES_PER_SECTOR < BPB_SECTORS_PER_FAT
  /\ ReadFat =>
       \A i \in 0 .. (FAT_ENTRIES_PER_SECTOR - 1) :
         LET k == (LogicalFatSector * FAT_ENTRIES_PER_SECTOR) + i
         IN  (FirstCluster <= k /\ k <= LastCluster) =>
               Entry16(data.bytes, i) = IF k < LastCluster THEN k + 1 ELSE 65535

\* The second FAT copy's second sector was read for the largest image: it
\* holds the link that follows the sector boundary and the end of the chain.
C5_Witness ==
  /\ ReadFat
  /\ block_no = FS_START_FAT1_SECTOR + 1
  /\ partSize = MaxImageChunks * UF2_FIRMWARE_BYTES_PER_SECTOR
  /\ LastCluster > FAT_ENTRIES_PER_SECTOR
  /\ Entry16(data.bytes, 0) = FAT_ENTRIES_PER_SECTOR + 1
  /\ Entry16(data.bytes, LastCluster - FAT_ENTRIES_PER_SECTOR) = 65535

\* C6: the directory entry generated for non-firmware file i has starting
\* cluster i + 2, and the FAT entry of cluster i + 2, in either FAT copy, is
\* the end-of-chain marker 0xFFFF.
C6_SmallFiles ==
  /\ (data.view = "DirEntry" /\ block_no = FS_START_ROOTDIR_SECTOR) =>
       \A i \in NonFirmwareFiles :
         /\ data.entries[i + 1].name = info[i + 1].name
         /\ data.entries[i + 1].startCluster = i + 2
         /\ data.entries[i + 1].highStartCluster = 0
  /\ ReadFat =>
       \A i \in NonFirmwareFiles :
         LogicalFatSector = (i + 2) \div FAT_ENTRIES_PER_SECTOR =>
           Entry16(data.bytes, (i + 2) % FAT_ENTRIES_PER_SECTOR) = 65535

\* The first root directory sector was read: label, then the two text files
\* at clusters 2 and 3.
C6_Witness ==
  /\ data.view = "DirEntry"
  /\ block_no = FS_START_ROOTDIR_SECTOR
  /\ NonFirmwareFiles = {0, 1}
  /\ data.entries[0].attrs = 40
  /\ data.entries[1].startCluster = 2
  /\ data.entries[2].startCluster = 3

ReadData == data.view # "none" /\ block_no >= FS_START_CLUSTERS_SECTOR
              /\ block_no < BPB_TOTAL_SECTORS

\* The offset of sector block_no inside the firmware file (negative: a text file).
FirmwareOffset == block_no - FS_START_CLUSTERS_SECTOR - (NUM_FILES - 1)

\* The image has exactly N chunks: the partition and the configured flash size agree.
ImageChunks == partSize \div UF2_FIRMWARE_BYTES_PER_SECTOR
ExactImage ==
  /\ partSize = ImageChunks * UF2_FIRMWARE_BYTES_PER_SECTOR
  /\ flashSize = partSize

\* C7: for an image of exactly N chunks of C = 256 bytes, the data sector at
\* firmware offset k is, for k < N, an upload packet with block index k, total
\* N, target address k * C, payload length C and flash bytes [k*C, (k+1)*C) as
\* payload, and for k >= N (inside the volume) a sector of zeros.
C7_FirmwareSectors ==
  (ReadData /\ ExactImage /\ FirmwareOffset >= 0) =>
    IF FirmwareOffset < ImageChunks
    THEN /\ data.view = "UF2_Block"
         /\ is_uf2_block(data.block)
         /\ data.block.blockNo = FirmwareOffset
         /\ data.block.numBlocks = ImageChunks
         /\ data.block.targetAddr = FirmwareOffset * UF2_FIRMWARE_BYTES_PER_SECTOR
         /\ data.block.payloadSize = UF2_FIRMWARE_BYTES_PER_SECTOR
         /\ \A j \in 0 .. (UF2_FIRMWARE_BYTES_PER_SECTOR - 1) :
              data.block.data[j] =
                FlashByte(flash, (FirmwareOffset * UF2_FIRMWARE_BYTES_PER_SECTOR) + j)
    ELSE /\ data.view = "uint8_t"
         /\ data.bytes = ZeroBytes

\* The second (last) packet of a two-chunk image was read.
C7_Witness ==
  /\ ReadData /\ ExactImage
  /\ ImageChunks = 2
  /\ FirmwareOffset = 1
  /\ data.view = "UF2_Block"
  /\ data.block.numBlocks = 2
  /\ data.block.data[0] = FlashByte(flash, UF2_FIRMWARE_BYTES_PER_SECTOR)

====
